---- MODULE Spec2Model ----
(***************************************************************************)
(* Model of the useTickets hook (hooks/useTickets.ts): the load operation  *)
(* that fetches tickets.json and evaluation.json, the enrichment that      *)
(* joins them, and the view model {loading, error, date, sets}.            *)
(***************************************************************************)
EXTENDS Integers, Sequences, FiniteSets, TLC

-----------------------------------------------------------------------------
(* Bounds of the model *)

\* number of load() invocations (the mount effect plus reloads)
MaxLoads == 2
\* length of evaluation.json's `tickets` array
MaxEvalTickets == 2
\* length of an evaluation record's `legs` array
MaxEvalLegs == 2

-----------------------------------------------------------------------------
(* JSON values as the hook sees them.  A value that the code tests for     *)
(* truthiness or iterates is a tagged record; a string property that may   *)
(* be missing is the marker Undefined.                                     *)

JUndefined == [tag |-> "undefined"]
JNull == [tag |-> "null"]
\* a truthy value that is not iterable (a number such as 5, or a plain object)
JNumber == [tag |-> "number"]
JArray(s) == [tag |-> "array", items |-> s]

Undefined == "undefined"

\* JS truthiness of a tagged value / of a string property
Truthy(v) == v.tag \notin {"undefined", "null"}
TruthyStr(s) == s \notin {"", Undefined}
\* for (const x of v) throws a TypeError unless v is iterable
Iterable(v) == v.tag = "array"

\* a ?? b
Nullish(a, b) == IF a = Undefined THEN b ELSE a
\* a || b on strings
OrElse(a, b) == IF TruthyStr(a) THEN a ELSE b

\* outcome of a block of code: it returned a value or threw an Error
Returned(v) == [threw |-> FALSE, value |-> v]
Threw(msg) == [threw |-> TRUE, message |-> msg]

\* { ...obj, f1: v1, ... }
Spread(obj, over) ==
  [f \in (DOMAIN obj) \cup (DOMAIN over) |->
     IF f \in DOMAIN over THEN over[f] ELSE obj[f]]

\* Map.prototype.set on a Map held as a function over its keys
MapSet(m, k, v) == [x \in (DOMAIN m) \cup {k} |-> IF x = k THEN v ELSE m[x]]
EmptyMap == [x \in {} |-> x]

SeqUpTo(S, n) == UNION {[1..k -> S] : k \in 0..n}

-----------------------------------------------------------------------------
(* Status domains (types/tickets.ts) *)

LegStatus == {"PENDING", "WIN", "LOSE"}
TicketStatus == {"PENDING", "WIN", "LOSE", "PARTIAL"}

\* messages of the TypeErrors the engine throws
MsgNotIterable == "TypeError: object is not iterable"
MsgNullProperty == "TypeError: Cannot read properties of null"

-----------------------------------------------------------------------------
(* Enrichment: steps 3-5 of load *)

\* if (t.ticket_id) evalMap.set(t.ticket_id, t)
evalMapSet_firstWins(m, t) ==
  IF TruthyStr(t.ticket_id) /\ t.ticket_id \notin DOMAIN m
    THEN MapSet(m, t.ticket_id, t) ELSE m

evalMapSet(m, t) ==
  IF TruthyStr(t.ticket_id) THEN MapSet(m, t.ticket_id, t) ELSE m

\* for (const t of evalJson.tickets): reading t.ticket_id of a null entry throws
RECURSIVE evalMapLoop(_, _)
evalMapLoop(items, m) ==
  IF Len(items) = 0 THEN Returned(m)
  ELSE IF Head(items).tag = "null" THEN Threw(MsgNullProperty)
  ELSE evalMapLoop(Tail(items), evalMapSet(m, Head(items)))

\* evalJson?.tickets
evalTickets(evalJson) ==
  IF evalJson.tag = "object" THEN evalJson.tickets ELSE JUndefined

\* const evalMap = new Map(); if (evalJson?.tickets) for (...) ...
evalMap(evalJson) ==
  LET tickets == evalTickets(evalJson) IN
  IF ~Truthy(tickets) THEN Returned(EmptyMap)
  ELSE IF ~Iterable(tickets) THEN Threw(MsgNotIterable)
  ELSE evalMapLoop(tickets.items, EmptyMap)

\* for (const l of evaluation.legs) legStatusMap.set(l.fixture_id, l.status)
RECURSIVE legStatusLoop(_, _)
legStatusLoop(items, m) ==
  IF Len(items) = 0 THEN m
  ELSE legStatusLoop(Tail(items), MapSet(m, Head(items).fixture_id, Head(items).status))

\* const legStatusMap = new Map(); if (evaluation.legs) for (...) ...
legStatusMap(evaluation) ==
  IF ~Truthy(evaluation.legs) THEN Returned(EmptyMap)
  ELSE IF ~Iterable(evaluation.legs) THEN Threw(MsgNotIterable)
  ELSE Returned(legStatusLoop(evaluation.legs.items, EmptyMap))

\* legStatusMap.get(leg.fixture_id) ?? "PENDING"
legStatusOf_noDefault(lsm, leg) ==
  IF leg.fixture_id \in DOMAIN lsm THEN lsm[leg.fixture_id] ELSE Undefined

legStatusOf(lsm, leg) ==
  IF leg.fixture_id \in DOMAIN lsm
    THEN Nullish(lsm[leg.fixture_id], "PENDING") ELSE "PENDING"

\* ticket.legs.map((leg) => ({ ...leg, status: ... }))
enrichLegs(ticket, lsm) ==
  [i \in 1..Len(ticket.legs) |->
     Spread(ticket.legs[i], [status |-> legStatusOf(lsm, ticket.legs[i])])]

\* legs.every(WIN) ? "WIN" : legs.some(LOSE) ? "LOSE" : "PENDING"
deriveStatus_loseFirst(legs) ==
  IF \E i \in 1..Len(legs) : legs[i].status = "LOSE" THEN "LOSE"
  ELSE IF \E i \in 1..Len(legs) : legs[i].status = "WIN" THEN "WIN"
  ELSE "PENDING"

deriveStatus_partial(legs) ==
  IF \A i \in 1..Len(legs) : legs[i].status = "WIN" THEN "WIN"
  ELSE IF \E i \in 1..Len(legs) : legs[i].status = "LOSE"
    THEN (IF \E i \in 1..Len(legs) : legs[i].status = "WIN" THEN "PARTIAL" ELSE "LOSE")
  ELSE "PENDING"

deriveStatus(legs) ==
  IF \A i \in 1..Len(legs) : legs[i].status = "WIN" THEN "WIN"
  ELSE IF \E i \in 1..Len(legs) : legs[i].status = "LOSE" THEN "LOSE"
  ELSE "PENDING"

\* evaluation.status ?? (derived)
ticketStatus_derivedFirst(evaluation, legs) ==
  IF deriveStatus(legs) # "PENDING" THEN deriveStatus(legs)
  ELSE Nullish(evaluation.status, "PENDING")

ticketStatus(evaluation, legs) == Nullish(evaluation.status, deriveStatus(legs))

\* if (!evaluation) return { ...ticket, status: "PENDING", legs: legsPending }
pendingTicket_derive(ticket) ==
  Spread(ticket, [status |-> deriveStatus(ticket.legs),
                  legs |-> enrichLegs(ticket, EmptyMap)])

pendingTicket(ticket) ==
  Spread(ticket,
         [status |-> "PENDING",
          legs |-> [i \in 1..Len(ticket.legs) |->
                      Spread(ticket.legs[i], [status |-> "PENDING"])]])

\* const enrichTicket = (ticket) => ...
enrichTicket(ticket, map) ==
  IF ticket.ticket_id \notin DOMAIN map THEN Returned(pendingTicket(ticket))
  ELSE LET evaluation == map[ticket.ticket_id]
           lsm == legStatusMap(evaluation)
       IN IF lsm.threw THEN lsm
          ELSE LET legs == enrichLegs(ticket, lsm.value)
               IN Returned(Spread(ticket, [status |-> ticketStatus(evaluation, legs),
                                           legs |-> legs]))

\* s.tickets.map(enrichTicket): the first ticket that throws ends the map
enrichTickets_evaluatedOnly(tickets, map) ==
  LET Evaluated(t) == t.ticket_id \in DOMAIN map
      kept == SelectSeq(tickets, Evaluated)
      res == [i \in 1..Len(kept) |-> enrichTicket(kept[i], map)]
  IN IF \E i \in 1..Len(kept) : res[i].threw
       THEN res[CHOOSE i \in 1..Len(kept) :
                  res[i].threw /\ \A j \in 1..(i-1) : ~res[j].threw]
       ELSE Returned([i \in 1..Len(kept) |-> res[i].value])

enrichTickets(tickets, map) ==
  LET res == [i \in 1..Len(tickets) |-> enrichTicket(tickets[i], map)]
  IN IF \E i \in 1..Len(tickets) : res[i].threw
       THEN res[CHOOSE i \in 1..Len(tickets) :
                  res[i].threw /\ \A j \in 1..(i-1) : ~res[j].threw]
       ELSE Returned([i \in 1..Len(tickets) |-> res[i].value])

\* ticketsJson.sets?.map((s) => ({code, label: s.label || s.code, tickets})) || []
enrichedSets(ticketsJson, map) ==
  IF ticketsJson.tag = "null" THEN Threw(MsgNullProperty)
  ELSE IF ~Truthy(ticketsJson.sets) THEN Returned(<<>>)
  ELSE LET sets0 == ticketsJson.sets.items
           res == [i \in 1..Len(sets0) |-> enrichTickets(sets0[i].tickets, map)]
       IN IF \E i \in 1..Len(sets0) : res[i].threw
            THEN res[CHOOSE i \in 1..Len(sets0) :
                       res[i].threw /\ \A j \in 1..(i-1) : ~res[j].threw]
            ELSE Returned([i \in 1..Len(sets0) |->
                             [code |-> sets0[i].code,
                              label |-> OrElse(sets0[i].label, sets0[i].code),
                              tickets |-> res[i].value]])

\* steps 3-6 of load, from the two parsed bodies to what is handed to
\* setDate/setSets, or the Error that reaches the catch clause
enrichment(ticketsJson, evalJson) ==
  LET map == evalMap(evalJson) IN
  IF map.threw THEN map
  ELSE LET es == enrichedSets(ticketsJson, map.value) IN
       IF es.threw THEN es
       ELSE Returned([date |-> OrElse(ticketsJson.date, ""), sets |-> es.value])

-----------------------------------------------------------------------------
(* Input feeds *)

FixtureIds == {100, 101}

Leg(f) == [fixture_id |-> f, market |-> "O25",
           pick |-> IF f = 100 THEN "Over 2.5 Goals" ELSE "BTTS Yes"]
Ticket(id, legs) == [ticket_id |-> id, label |-> "[GOALS MIX]", score |-> 80,
                     legs |-> legs]
TicketSet(code, label, tickets) == [code |-> code, label |-> label, tickets |-> tickets]
Feed(date, sets) == [tag |-> "object", date |-> date, sets |-> sets]

T1 == Ticket("T1", <<Leg(100), Leg(101)>>)
T1NoLegs == Ticket("T1", <<>>)
T2 == Ticket("T2", <<Leg(101), Leg(100)>>)
T2One == Ticket("T2", <<Leg(101)>>)

FeedA == Feed("2025-11-30", JArray(<<TicketSet("GOALS", "Goals", <<T1>>)>>))
FeedB == Feed("2025-12-01",
              JArray(<<TicketSet("GOALS", "Goals", <<T2, T1>>)>>))

\* predictions feeds that follow the tickets.json schema (date and sets may
\* be missing, a set label may be empty: the code guards those three)
PredFeeds ==
  { FeedA, FeedB,
    Feed("2025-11-30", JArray(<<TicketSet("GOALS", "Goals", <<T1, T2One>>)>>)),
    Feed("2025-11-30", JArray(<<TicketSet("GOALS", "Goals", <<T1>>),
                                TicketSet("BTTS", "", <<T2One>>)>>)),
    Feed("2025-11-30", JArray(<<TicketSet("BTTS", "", <<T2>>),
                                TicketSet("GOALS", "Goals", <<T1NoLegs>>)>>)),
    Feed("2025-11-30", JArray(<<TicketSet("GOALS", "Goals", <<T1NoLegs>>)>>)),
    Feed("2025-11-30", JArray(<<TicketSet("GOALS", "Goals", <<>>)>>)),
    Feed("2025-11-30", JArray(<<>>)),
    Feed(Undefined, JUndefined) }

\* values of an evaluation leg's status: the schema's three and one outside it
EvalLegStatuses == LegStatus \cup {"VOID"}
\* values of an evaluation record's status: missing, the schema's four, one outside
EvalStatuses == {Undefined} \cup TicketStatus \cup {"VOID"}

EvalLeg(f, st) == [fixture_id |-> f, status |-> st]
EvalLegs == {EvalLeg(f, st) : f \in FixtureIds, st \in EvalLegStatuses}
EvalLegLists ==
  {JUndefined, JNumber} \cup {JArray(s) : s \in SeqUpTo(EvalLegs, MaxEvalLegs)}

EvalTicket(id, st, legs) ==
  [tag |-> "object", ticket_id |-> id, status |-> st, legs |-> legs]

\* one record with any status and any legs list
RichEvalTickets ==
  {EvalTicket(id, st, legs) : id \in {"T1", "T2"}, st \in EvalStatuses,
                             legs \in EvalLegLists}
\* records that may repeat in one feed, null entries and records with no id
PlainEvalTickets ==
  {JNull, EvalTicket("", "WIN", JUndefined)} \cup
  {EvalTicket(id, st, legs) :
     id \in {"T1", "T2"}, st \in {Undefined, "WIN", "LOSE"},
     legs \in {JUndefined, JArray(<<EvalLeg(100, "LOSE")>>)}}

EvalFeed(tickets) == [tag |-> "object", date |-> "2025-11-30", tickets |-> tickets]

\* bodies of evaluation.json that parse as JSON; JNull stands for no evaluation
EvalFeeds ==
  {JNull, JNumber, EvalFeed(JUndefined), EvalFeed(JNumber)} \cup
  {EvalFeed(JArray(<<t>>)) : t \in RichEvalTickets} \cup
  {EvalFeed(JArray(s)) : s \in SeqUpTo(PlainEvalTickets, MaxEvalTickets)}

\* what the load operation is given in the model of the hook's life cycle
LoadPredBodies == {FeedA, FeedB, JNull}
LoadEvalBodies ==
  { JNull,
    EvalFeed(JNumber),
    EvalFeed(JArray(<<JNull>>)),
    EvalFeed(JArray(<<EvalTicket("T1", Undefined, JNumber)>>)),
    EvalFeed(JArray(<<EvalTicket("T1", Undefined,
                                 JArray(<<EvalLeg(100, "WIN"), EvalLeg(101, "WIN")>>))>>)),
    EvalFeed(JArray(<<EvalTicket("T1", "PARTIAL",
                                 JArray(<<EvalLeg(100, "WIN"), EvalLeg(101, "LOSE")>>))>>)) }
\* HTTP status codes of the two responses
TicketsHttpStatuses == {200, 404, 500}
EvalHttpStatuses == {200, 404}
\* messages of the errors fetch rejects with ("" is an error without message)
RejectMessages == {"Network request failed", ""}
MsgJsonParse == "SyntaxError: JSON Parse error"

-----------------------------------------------------------------------------
(* The hook: state, load, mount effect, reload *)

VARIABLES
  loading, error, date, sets,   \* the four useState cells
  mounted,                      \* the mount effect has run
  started,                      \* number of load() calls so far
  pc,                           \* where each load() call stands
  ticketsJson,                  \* each call's parsed tickets.json
  result,                       \* how each call ended
  overlapped,                   \* the call ran while another call was in flight
  lastDone,                     \* the call that completed last
  lastEvalRead,                 \* how that call's evaluation read ended
  lastEvalJson,                 \* the evalJson that call enriched with
  lastThrown,                   \* the message of the error that call caught
  evalRequested,                \* the call has issued fetch(EVAL_URL)
  evalUsed,                     \* the evalJson each call enriched with
  written,                        \* the date and sets each call wrote
  inP, inE, ran, out            \* the enrichment on its own

hvars == <<loading, error, date, sets, mounted, started, pc, ticketsJson,
           result, overlapped, lastDone, lastEvalRead, lastEvalJson, lastThrown,
           evalRequested, evalUsed, written>>
evars == <<inP, inE, ran, out>>
vars == <<hvars, evars>>

Loads == 1..MaxLoads
InFlight(i) == pc[i] \notin {"idle", "done"}

NotRun == Returned([date |-> "", sets |-> <<>>])

\* useState initial values; no load yet
InitHook ==
  /\ loading = FALSE /\ error = "" /\ date = "" /\ sets = <<>>
  /\ mounted = FALSE /\ started = 0
  /\ pc = [i \in Loads |-> "idle"]
  /\ ticketsJson = [i \in Loads |-> JUndefined]
  /\ result = [i \in Loads |-> "none"]
  /\ overlapped = [i \in Loads |-> FALSE]
  /\ lastDone = 0 /\ lastEvalRead = "none" /\ lastEvalJson = JNull
  /\ lastThrown = ""
  /\ evalRequested = [i \in Loads |-> FALSE]
  /\ evalUsed = [i \in Loads |-> JNull]
  /\ written = [i \in Loads |-> [date |-> "", sets |-> <<>>]]

Init ==
  /\ InitHook
  /\ inP = FeedA /\ inE = JNull /\ ran = FALSE /\ out = NotRun

\* `Tickets HTTP ${ticketsRes.status}`
HttpMessage(status) == IF status = 500 THEN "Tickets HTTP 500" ELSE "Tickets HTTP 404"
\* Response.ok
ResponseOk(status) == status >= 200 /\ status <= 299

\* load(), up to the first await: setLoading(true); setError(""); fetch(TICKETS_URL)
Load_parallelFetch(i) ==
  /\ loading' = TRUE
  /\ error' = ""
  /\ started' = i
  /\ pc' = [pc EXCEPT ![i] = "ticketsFetch"]
  /\ overlapped' = [j \in Loads |->
                      IF j = i THEN \E k \in Loads : InFlight(k)
                      ELSE overlapped[j] \/ InFlight(j)]
  /\ evalRequested' = [evalRequested EXCEPT ![i] = TRUE]
  /\ UNCHANGED <<date, sets, ticketsJson, result, lastDone, lastEvalRead,
                 lastEvalJson, lastThrown, evalUsed, written>>

Load(i) ==
  /\ loading' = TRUE
  /\ error' = ""
  /\ started' = i
  /\ pc' = [pc EXCEPT ![i] = "ticketsFetch"]
  /\ overlapped' = [j \in Loads |->
                      IF j = i THEN \E k \in Loads : InFlight(k)
                      ELSE overlapped[j] \/ InFlight(j)]
  /\ UNCHANGED <<date, sets, ticketsJson, result, lastDone, lastEvalRead,
                 lastEvalJson, lastThrown, evalRequested, evalUsed, written>>

\* useEffect(() => { load(); }, [load])
Mount ==
  /\ ~mounted
  /\ mounted' = TRUE
  /\ Load(1)
  /\ UNCHANGED evars

\* reload: load, invoked by the screen's RefreshControl
Reload ==
  /\ mounted /\ started < MaxLoads
  /\ Load(started + 1)
  /\ UNCHANGED <<mounted, evars>>

\* catch (e) { setError(e?.message || "Failed to load tickets"); setSets([]);
\* setDate(""); } finally { setLoading(false); }
Catch_keepsData(i, message, evalRead, evalJson) ==
  /\ error' = OrElse(message, "Failed to load tickets")
  /\ loading' = FALSE
  /\ pc' = [pc EXCEPT ![i] = "done"]
  /\ result' = [result EXCEPT ![i] = "failure"]
  /\ lastDone' = i /\ lastEvalRead' = evalRead /\ lastEvalJson' = evalJson
  /\ lastThrown' = message
  /\ evalUsed' = [evalUsed EXCEPT ![i] = evalJson]
  /\ written' = [written EXCEPT ![i] = [date |-> date, sets |-> sets]]
  /\ UNCHANGED <<sets, date, mounted, started, ticketsJson, overlapped,
                 evalRequested, evars>>

Catch_leavesLoading(i, message, evalRead, evalJson) ==
  /\ error' = OrElse(message, "Failed to load tickets")
  /\ sets' = <<>>
  /\ date' = ""
  /\ pc' = [pc EXCEPT ![i] = "done"]
  /\ result' = [result EXCEPT ![i] = "failure"]
  /\ lastDone' = i /\ lastEvalRead' = evalRead /\ lastEvalJson' = evalJson
  /\ lastThrown' = message
  /\ evalUsed' = [evalUsed EXCEPT ![i] = evalJson]
  /\ written' = [written EXCEPT ![i] = [date |-> "", sets |-> <<>>]]
  /\ UNCHANGED <<loading, mounted, started, ticketsJson, overlapped,
                 evalRequested, evars>>

Catch(i, message, evalRead, evalJson) ==
  /\ error' = OrElse(message, "Failed to load tickets")
  /\ sets' = <<>>
  /\ date' = ""
  /\ loading' = FALSE
  /\ pc' = [pc EXCEPT ![i] = "done"]
  /\ result' = [result EXCEPT ![i] = "failure"]
  /\ lastDone' = i /\ lastEvalRead' = evalRead /\ lastEvalJson' = evalJson
  /\ lastThrown' = message
  /\ evalUsed' = [evalUsed EXCEPT ![i] = evalJson]
  /\ written' = [written EXCEPT ![i] = [date |-> "", sets |-> <<>>]]
  /\ UNCHANGED <<mounted, started, ticketsJson, overlapped, evalRequested, evars>>

\* setDate(ticketsJson.date || ""); setSets(enrichedSets); finally setLoading(false)
Commit_mergesPrevious(i, value, evalRead, evalJson) ==
  /\ date' = value.date
  /\ sets' = sets \o value.sets
  /\ loading' = FALSE
  /\ pc' = [pc EXCEPT ![i] = "done"]
  /\ result' = [result EXCEPT ![i] = "success"]
  /\ lastDone' = i /\ lastEvalRead' = evalRead /\ lastEvalJson' = evalJson
  /\ evalUsed' = [evalUsed EXCEPT ![i] = evalJson]
  /\ written' = [written EXCEPT ![i] = [date |-> value.date, sets |-> sets \o value.sets]]
  /\ UNCHANGED <<error, lastThrown, mounted, started, ticketsJson, overlapped,
                 evalRequested, evars>>

Commit_keepsSets(i, value, evalRead, evalJson) ==
  /\ date' = value.date
  /\ loading' = FALSE
  /\ pc' = [pc EXCEPT ![i] = "done"]
  /\ result' = [result EXCEPT ![i] = "success"]
  /\ lastDone' = i /\ lastEvalRead' = evalRead /\ lastEvalJson' = evalJson
  /\ evalUsed' = [evalUsed EXCEPT ![i] = evalJson]
  /\ written' = [written EXCEPT ![i] = [date |-> value.date, sets |-> sets]]
  /\ UNCHANGED <<sets, error, lastThrown, mounted, started, ticketsJson,
                 overlapped, evalRequested, evars>>

Commit(i, value, evalRead, evalJson) ==
  /\ date' = value.date
  /\ sets' = value.sets
  /\ loading' = FALSE
  /\ pc' = [pc EXCEPT ![i] = "done"]
  /\ result' = [result EXCEPT ![i] = "success"]
  /\ lastDone' = i /\ lastEvalRead' = evalRead /\ lastEvalJson' = evalJson
  /\ evalUsed' = [evalUsed EXCEPT ![i] = evalJson]
  /\ written' = [written EXCEPT ![i] = [date |-> value.date, sets |-> value.sets]]
  /\ UNCHANGED <<error, lastThrown, mounted, started, ticketsJson, overlapped,
                 evalRequested, evars>>

\* steps 3-6 and the catch/finally clauses, once evalJson is settled
Finish(i, evalRead, evalJson) ==
  LET r == enrichment(ticketsJson[i], evalJson) IN
  IF r.threw THEN Catch(i, r.message, evalRead, evalJson)
  ELSE Commit(i, r.value, evalRead, evalJson)

\* await fetch(TICKETS_URL) settles: it rejects, or resolves with a response
\* whose ok flag decides between the throw and ticketsRes.json()
TicketsFetchSettles(i) ==
  /\ pc[i] = "ticketsFetch"
  /\ \/ \E m \in RejectMessages : Catch(i, m, "none", JNull)
     \/ \E status \in TicketsHttpStatuses :
          IF ~ResponseOk(status) THEN Catch(i, HttpMessage(status), "none", JNull)
          ELSE /\ pc' = [pc EXCEPT ![i] = "ticketsJson"]
               /\ UNCHANGED <<loading, error, date, sets, mounted, started,
                              ticketsJson, result, overlapped, lastDone,
                              lastEvalRead, lastEvalJson, lastThrown,
                              evalRequested, evalUsed, written, evars>>

\* await ticketsRes.json() settles: a SyntaxError, or the parsed body;
\* with the body in hand the evaluation fetch is issued
TicketsJsonSettles(i) ==
  /\ pc[i] = "ticketsJson"
  /\ \/ Catch(i, MsgJsonParse, "none", JNull)
     \/ \E body \in LoadPredBodies :
          /\ ticketsJson' = [ticketsJson EXCEPT ![i] = body]
          /\ pc' = [pc EXCEPT ![i] = "evalFetch"]
          /\ evalRequested' = [evalRequested EXCEPT ![i] = TRUE]
          /\ UNCHANGED <<loading, error, date, sets, mounted, started, result,
                         overlapped, lastDone, lastEvalRead, lastEvalJson,
                         lastThrown, evalUsed, written, evars>>

\* await fetch(EVAL_URL) settles: a rejection is caught (evalJson = null), a
\* response that is not ok leaves evalJson null, an ok one is parsed
EvalFetchSettles(i) ==
  /\ pc[i] = "evalFetch"
  /\ \/ Finish(i, "rejected", JNull)
     \/ \E status \in EvalHttpStatuses :
          IF ~ResponseOk(status) THEN Finish(i, "http", JNull)
          ELSE /\ pc' = [pc EXCEPT ![i] = "evalJson"]
               /\ UNCHANGED <<loading, error, date, sets, mounted, started,
                              ticketsJson, result, overlapped, lastDone,
                              lastEvalRead, lastEvalJson, lastThrown,
                              evalRequested, evalUsed, written, evars>>

\* await evalRes.json() settles: a SyntaxError is caught (evalJson = null),
\* or evalJson is the parsed body
EvalJsonSettles(i) ==
  /\ pc[i] = "evalJson"
  /\ \/ Finish(i, "parse", JNull)
     \/ \E body \in LoadEvalBodies : Finish(i, "body", body)

Next ==
  \/ Mount
  \/ Reload
  \/ \E i \in Loads : TicketsFetchSettles(i)
  \/ \E i \in Loads : TicketsJsonSettles(i)
  \/ \E i \in Loads : EvalFetchSettles(i)
  \/ \E i \in Loads : EvalJsonSettles(i)

Spec == Init /\ [][Next]_vars

\* the promise that load i awaits (a fetch or a json() read) settles and the
\* continuation runs: the load leaves its position. Among the steps of
\* Next these are exactly the four ...Settles(i) actions, one of which is
\* enabled at every position of a load in flight.
AwaitSettles(i) ==
  /\ InFlight(i)
  /\ \E s \in {"ticketsJson", "evalFetch", "evalJson", "done"} :
       s # pc[i] /\ pc' = [pc EXCEPT ![i] = s]

\* every promise a load awaits settles: it resolves or it rejects
Settles == \A i \in Loads : WF_pc(AwaitSettles(i))

SpecFair == Init /\ [][Next]_vars /\ Settles

-----------------------------------------------------------------------------
(* The enrichment on its own: a pure function of the two parsed bodies *)

InitEnrich ==
  /\ InitHook
  /\ inP \in PredFeeds
  /\ inE \in EvalFeeds
  /\ ran = FALSE
  /\ out = NotRun

Enrich ==
  /\ ~ran
  /\ ran' = TRUE
  /\ out' = enrichment(inP, inE)
  /\ UNCHANGED <<inP, inE, hvars>>

NextEnrich == Enrich

SpecEnrich == InitEnrich /\ [][NextEnrich]_vars

-----------------------------------------------------------------------------
(* Vocabulary of the properties: the feeds read as data, without the hook *)

\* the ticket sets of a predictions feed, in feed order
PSets(P) == IF P.tag = "object" /\ P.sets.tag = "array" THEN P.sets.items ELSE <<>>
\* the records of an evaluation feed, in feed order
ERecords(E) ==
  IF E.tag = "object" /\ E.tickets.tag = "array" THEN E.tickets.items ELSE <<>>
\* positions of the records of E that carry ticket identifier id
Matching(E, id) ==
  {k \in 1..Len(ERecords(E)) :
     ERecords(E)[k].tag = "object" /\ ERecords(E)[k].ticket_id = id}
\* (set, ticket) positions of a predictions feed
Positions(P) ==
  UNION {{<<i, j>> : j \in 1..Len(PSets(P)[i].tickets)} : i \in 1..Len(PSets(P))}
InTicket(p) == PSets(inP)[p[1]].tickets[p[2]]
OutTicket(p) == out.value.sets[p[1]].tickets[p[2]]
Enriched == ran /\ ~out.threw

AllLegs(t, st) == \A i \in 1..Len(t.legs) : t.legs[i].status = st
SomeLeg(t, st) == \E i \in 1..Len(t.legs) : t.legs[i].status = st

\* same sets, tickets and legs, in the same order, identified by their keys
SameOrder ==
  /\ Len(out.value.sets) = Len(PSets(inP))
  /\ \A i \in 1..Len(PSets(inP)) :
       /\ out.value.sets[i].code = PSets(inP)[i].code
       /\ Len(out.value.sets[i].tickets) = Len(PSets(inP)[i].tickets)
  /\ \A p \in Positions(inP) :
       /\ OutTicket(p).ticket_id = InTicket(p).ticket_id
       /\ Len(OutTicket(p).legs) = Len(InTicket(p).legs)
       /\ \A k \in 1..Len(InTicket(p).legs) :
            OutTicket(p).legs[k].fixture_id = InTicket(p).legs[k].fixture_id

-----------------------------------------------------------------------------
(* Properties of the load operation, checked under Spec *)

\* sets shows exactly the sets, tickets and legs of P in P's order, every
\* status PENDING
AllPendingFrom(P, shown) ==
  /\ Len(shown) = Len(PSets(P))
  /\ \A i \in 1..Len(PSets(P)) :
       /\ shown[i].code = PSets(P)[i].code
       /\ Len(shown[i].tickets) = Len(PSets(P)[i].tickets)
  /\ \A p \in Positions(P) :
       LET t == PSets(P)[p[1]].tickets[p[2]]
           o == shown[p[1]].tickets[p[2]]
       IN /\ o.ticket_id = t.ticket_id
          /\ o.status = "PENDING"
          /\ Len(o.legs) = Len(t.legs)
          /\ \A k \in 1..Len(t.legs) :
               o.legs[k].fixture_id = t.legs[k].fixture_id /\ o.legs[k].status = "PENDING"

\* sets shows the sets and tickets of P in P's order, whatever the statuses
RenderedFrom(P, shown) ==
  /\ Len(shown) = Len(PSets(P))
  /\ \A p \in Positions(P) :
       shown[p[1]].tickets[p[2]].ticket_id = PSets(P)[p[1]].tickets[p[2]].ticket_id

DateOf(P) == IF P.date \in {"", Undefined} THEN "" ELSE P.date

\* the body follows the evaluation.json schema
SchemaValid(E) ==
  /\ E.tag = "object"
  /\ E.tickets.tag = "array"
  /\ \A k \in 1..Len(E.tickets.items) :
       LET t == E.tickets.items[k] IN
       /\ t.tag = "object"
       /\ t.status \in TicketStatus \cup {Undefined}
       /\ t.legs.tag \in {"undefined", "array"}
       /\ t.legs.tag = "array" =>
            \A j \in 1..Len(t.legs.items) : t.legs.items[j].status \in LegStatus

\* C4: with a predictions feed in hand, an evaluation read that fails (the
\* fetch rejects, the response is not ok, the body does not parse) never
\* fails the load: the load ends with error empty, date and sets taken from
\* the predictions feed, and every leg and ticket status PENDING.
C4_EvaluationFailureEndsClean ==
  \A i \in Loads :
    (lastDone = i /\ lastEvalRead \in {"rejected", "http", "parse"}
       /\ ticketsJson[i].tag = "object") =>
      /\ result[i] = "success"
      /\ error = ""
      /\ date = DateOf(ticketsJson[i])
      /\ AllPendingFrom(ticketsJson[i], sets)

\* C4, as far as the code goes: the load takes the success path and shows
\* the predictions all PENDING; error is empty when no other load overlapped
\* it, and otherwise it is empty or the message of another load that failed.
C4_EvaluationFailureIsNoFailure ==
  \A i \in Loads :
    (lastDone = i /\ lastEvalRead \in {"rejected", "http", "parse"}
       /\ ticketsJson[i].tag = "object") =>
      /\ result[i] = "success"
      /\ date = DateOf(ticketsJson[i])
      /\ AllPendingFrom(ticketsJson[i], sets)
      /\ ~overlapped[i] => (error = "" /\ (started = i => ~loading))
      /\ error # "" => \E j \in Loads : j # i /\ overlapped[j] /\ result[j] = "failure"

\* a reload whose evaluation body did not parse, after a load that failed
C4_Witness ==
  \E i \in Loads :
    /\ i > 1 /\ lastDone = i /\ started = i /\ ~overlapped[i]
    /\ result[i - 1] = "failure"
    /\ lastEvalRead = "parse"
    /\ sets # <<>> /\ date # "" /\ error = "" /\ ~loading

\* C5: an evaluation body that parses as JSON but does not follow the
\* evaluation schema is never surfaced: the load ends with error empty and
\* the predictions rendered.
C5_MalformedEvaluationNotSurfaced ==
  \A i \in Loads :
    (lastDone = i /\ ~overlapped[i] /\ lastEvalRead = "body"
       /\ ~SchemaValid(lastEvalJson) /\ ticketsJson[i].tag = "object") =>
      /\ result[i] = "success"
      /\ error = ""
      /\ date = DateOf(ticketsJson[i])
      /\ RenderedFrom(ticketsJson[i], sets)

\* C6: a load that no other load overlapped and whose predictions read
\* failed (fetch rejected, response not ok, body not JSON) ends with error
\* the thrown message, or 'Failed to load tickets' for an empty one, with
\* sets and date empty and loading false.
C6_PredictionsFailureState ==
  \A i \in Loads :
    (lastDone = i /\ started = i /\ ~overlapped[i]
       /\ result[i] = "failure" /\ lastEvalRead = "none") =>
      /\ error = (IF lastThrown = "" THEN "Failed to load tickets" ELSE lastThrown)
      /\ error # ""
      /\ sets = <<>> /\ date = ""
      /\ loading = FALSE

\* a reload that failed on its predictions read after a load that showed data
C6_Witness ==
  \E i \in Loads :
    /\ i > 1 /\ lastDone = i /\ started = i /\ ~overlapped[i]
    /\ result[i - 1] = "success" /\ PSets(ticketsJson[i - 1]) # <<>>
    /\ result[i] = "failure" /\ lastEvalRead = "none"
    /\ lastThrown = ""
    /\ error = "Failed to load tickets" /\ sets = <<>>

\* C10: once two overlapping loads have both completed, the displayed
\* state is the outcome of the one that completed last: after a success
\* error is empty and date and sets are its data, after a failure sets and
\* date are empty and error is its message.
C10_LastResolvedWins ==
  (lastDone # 0 /\ overlapped[IF lastDone = 0 THEN 1 ELSE lastDone]
     /\ \A i \in 1..started : pc[i] = "done") =>
    IF result[lastDone] = "success"
      THEN /\ error = ""
           /\ date = DateOf(ticketsJson[lastDone])
           /\ RenderedFrom(ticketsJson[lastDone], sets)
      ELSE /\ error = OrElse(lastThrown, "Failed to load tickets")
           /\ sets = <<>> /\ date = ""

BothFrom(P, d, s) ==
  /\ d = DateOf(P)
  /\ Len(s) = Len(PSets(P))
  /\ \A i \in 1..Len(PSets(P)) :
       /\ s[i].code = PSets(P)[i].code
       /\ Len(s[i].tickets) = Len(PSets(P)[i].tickets)
       /\ \A j \in 1..Len(PSets(P)[i].tickets) :
            s[i].tickets[j].ticket_id = PSets(P)[i].tickets[j].ticket_id
\* date and sets are those of one load: both empty before any load has
\* completed and after a failure, both of the last load's body after a success
Paired ==
  IF lastDone = 0 \/ result[IF lastDone = 0 THEN 1 ELSE lastDone] # "success"
    THEN date = "" /\ sets = <<>>
    ELSE BothFrom(ticketsJson[lastDone], date, sets)
\* a step that changes date or sets is the completion of a load
OnlyCompletionWrites ==
  (date' # date \/ sets' # sets) =>
    \E i \in Loads : InFlight(i) /\ pc'[i] = "done" /\ lastDone' = i
\* the start of a load writes loading and error only
StartWritesLoadingAndError ==
  (started' # started) =>
    /\ loading' /\ error' = ""
    /\ date' = date /\ sets' = sets

C15_WitnessInFlight ==
  /\ started = 2 /\ lastDone = 1 /\ InFlight(2) /\ pc[2] = "evalJson"
  /\ ticketsJson[1] = FeedA /\ ticketsJson[2] = FeedB
  /\ BothFrom(FeedA, date, sets)

PredictionsFailed(i) ==
  pc[i] = "done" /\ result[i] = "failure" /\ ticketsJson[i] = JUndefined

\* C16: within one load the two reads are sequential: the evaluation feed
\* is requested only once the predictions response has arrived with a
\* success status and its body has been parsed, and a load whose
\* predictions read failed has issued no evaluation request.
C16_SequentialReads ==
  \A i \in Loads :
    /\ evalRequested[i] =>
         /\ ticketsJson[i] # JUndefined
         /\ pc[i] \in {"evalFetch", "evalJson", "done"}
    /\ pc[i] \in {"idle", "ticketsFetch", "ticketsJson"} => ~evalRequested[i]
    /\ PredictionsFailed(i) => ~evalRequested[i]
    /\ pc[i] \in {"evalFetch", "evalJson"} => evalRequested[i]

\* a load that failed on HTTP 500 without an evaluation request, and a
\* reload that issued one after parsing its predictions
C16_Witness ==
  /\ PredictionsFailed(1) /\ ~evalRequested[1]
  /\ error = "Tickets HTTP 500"
  /\ pc[2] = "evalFetch" /\ evalRequested[2] /\ ticketsJson[2] = FeedA

\* C17: loading is true whenever a load is in flight, also when a reload
\* overlaps an earlier load, and false only when no load is in flight.
C17_LoadingWhileInFlight ==
  loading <=> \E i \in Loads : InFlight(i)

\* C17, as far as the code goes: loading is false when no load is in
\* flight, and true while the only load in flight was not overlapped
C17_LoadingUnlessOverlapped ==
  /\ (\A i \in Loads : ~InFlight(i)) => ~loading
  /\ \A i \in Loads : (InFlight(i) /\ ~overlapped[i]) => loading

\* the step in which a load completes sets loading to false
CompletionClearsLoading ==
  (\E i \in Loads : InFlight(i) /\ pc'[i] = "done") => ~loading'
\* loading is raised by the start of a load only
LoadingRaisedByStart ==
  (~loading /\ loading') => started' # started

\* C18: provided every promise it awaits settles, a load that has started
\* completes; on every path the completion sets loading to false, and with
\* no load in flight loading is false and stays so until a load starts.
C18_EveryLoadCompletes ==
  /\ \A i \in Loads : InFlight(i) ~> (pc[i] = "done")
  /\ []((\A i \in Loads : ~InFlight(i)) => ~loading)
  /\ [][CompletionClearsLoading /\ LoadingRaisedByStart]_vars

\* all loads have completed, one by an exception during the enrichment
\* (the predictions body was null), one with success; loading is false
C18_Witness ==
  /\ started = MaxLoads /\ \A i \in Loads : pc[i] = "done"
  /\ \E i \in Loads :
       result[i] = "failure" /\ ticketsJson[i] = JNull /\ lastThrown = MsgNullProperty
  /\ \E i \in Loads : result[i] = "success"
  /\ ~loading

-----------------------------------------------------------------------------
(* Properties of the enrichment, checked under SpecEnrich *)

\* C1: with the evaluation feed absent (null) the enrichment succeeds and
\* mirrors the order of P; and every ticket for which the evaluation feed
\* holds no record with its ticket_id is PENDING with every leg PENDING.
C1_NoEvaluationAllPending ==
  /\ (ran /\ inE = JNull) => (~out.threw /\ SameOrder)
  /\ Enriched =>
       \A p \in Positions(inP) :
         Matching(inE, InTicket(p).ticket_id) = {} =>
           /\ OutTicket(p).status = "PENDING"
           /\ AllLegs(OutTicket(p), "PENDING")

\* a ticket without legs and a ticket with legs, both without evaluation
C1_Witness ==
  /\ Enriched /\ inE = JNull
  /\ \E p \in Positions(inP) : Len(InTicket(p).legs) = 0 /\ OutTicket(p).status = "PENDING"
  /\ \E p \in Positions(inP) : Len(InTicket(p).legs) = 2 /\ AllLegs(OutTicket(p), "PENDING")

\* C2: a ticket whose evaluation record carries no explicit status gets the
\* status derived from its resolved legs: WIN if all are WIN, else LOSE if
\* any is LOSE, else PENDING.
C2_DerivedStatus ==
  Enriched =>
    \A p \in Positions(inP) :
      LET recs == Matching(inE, InTicket(p).ticket_id) IN
      (recs # {} /\ \A k \in recs : ERecords(inE)[k].status = Undefined) =>
        OutTicket(p).status =
          (IF AllLegs(OutTicket(p), "WIN") THEN "WIN"
           ELSE IF SomeLeg(OutTicket(p), "LOSE") THEN "LOSE"
           ELSE "PENDING")

\* no explicit status, one leg WIN and the other not listed: PENDING
C2_Witness ==
  /\ Enriched
  /\ \E p \in Positions(inP) :
       /\ Matching(inE, InTicket(p).ticket_id) # {}
       /\ \A k \in Matching(inE, InTicket(p).ticket_id) :
            ERecords(inE)[k].status = Undefined
       /\ SomeLeg(OutTicket(p), "WIN") /\ SomeLeg(OutTicket(p), "PENDING")
       /\ OutTicket(p).status = "PENDING"

\* C3: a ticket whose evaluation record carries an explicit status S of
\* the four ticket statuses gets exactly S, whatever its legs would derive.
C3_ExplicitStatusVerbatim ==
  Enriched =>
    \A p \in Positions(inP) : \A S \in TicketStatus :
      LET recs == Matching(inE, InTicket(p).ticket_id) IN
      (recs # {} /\ \A k \in recs : ERecords(inE)[k].status = S) =>
        OutTicket(p).status = S

\* explicit PARTIAL although a leg is LOSE
C3_Witness ==
  /\ Enriched
  /\ \E p \in Positions(inP) :
       /\ \E k \in Matching(inE, InTicket(p).ticket_id) :
            ERecords(inE)[k].status = "PARTIAL"
       /\ SomeLeg(OutTicket(p), "WIN") /\ SomeLeg(OutTicket(p), "LOSE")
       /\ OutTicket(p).status = "PARTIAL"

\* C7: enrichment only decorates: the output has the sets, tickets and legs
\* of P in P's order, and every ticket and leg field other than status is
\* the one of P; identifiers that occur only in E add nothing.
C7_OnlyDecorates ==
  Enriched =>
    /\ SameOrder
    /\ \A p \in Positions(inP) :
         /\ DOMAIN OutTicket(p) = (DOMAIN InTicket(p)) \cup {"status"}
         /\ \A f \in (DOMAIN InTicket(p)) \ {"status", "legs"} :
              OutTicket(p)[f] = InTicket(p)[f]
         /\ \A k \in 1..Len(InTicket(p).legs) :
              /\ DOMAIN OutTicket(p).legs[k] = (DOMAIN InTicket(p).legs[k]) \cup {"status"}
              /\ \A f \in DOMAIN InTicket(p).legs[k] :
                   OutTicket(p).legs[k][f] = InTicket(p).legs[k][f]

\* E holds a record for T2 only, P holds T1 only: the output holds T1 only
C7_Witness ==
  /\ Enriched
  /\ Matching(inE, "T2") # {} /\ Matching(inE, "T1") = {}
  /\ Positions(inP) = {<<1, 1>>}
  /\ OutTicket(<<1, 1>>).ticket_id = "T1"
  /\ Len(OutTicket(<<1, 1>>).legs) = 2

\* the identifiers that several records of E carry
DuplicateIds(E) ==
  {id \in {"T1", "T2"} : Cardinality(Matching(E, id)) > 1}
\* position of the last record of E with identifier id
LastRecord(E, id) ==
  CHOOSE k \in Matching(E, id) : \A j \in Matching(E, id) : j <= k
\* E without the records that a later record with the same identifier follows
LastOnly(E) ==
  LET r == ERecords(E)
      keep == {k \in 1..Len(r) :
                 r[k].tag = "object" => k = LastRecord(E, r[k].ticket_id)}
      nth(i) == CHOOSE k \in keep : Cardinality({j \in keep : j < k}) = i - 1
  IN [E EXCEPT !.tickets = JArray([i \in 1..Cardinality(keep) |-> r[nth(i)]])]

\* C8: with several records for one ticket identifier the lookup is built
\* without failing and the last record decides: the result is the one of
\* the feed without the earlier duplicates, and an explicit status of the
\* last record is the ticket's status.
C8_LastDuplicateWins ==
  (ran /\ DuplicateIds(inE) # {}) =>
    /\ (\A k \in 1..Len(ERecords(inE)) : ERecords(inE)[k].tag = "object") => ~out.threw
    /\ out = enrichment(inP, LastOnly(inE))
    /\ Enriched =>
         \A p \in Positions(inP) :
           LET id == InTicket(p).ticket_id IN
           (id \in DuplicateIds(inE)
              /\ ERecords(inE)[LastRecord(inE, id)].status # Undefined) =>
             OutTicket(p).status = ERecords(inE)[LastRecord(inE, id)].status

\* two records for T1, the first WIN without legs, the last with leg 100 LOSE
C8_Witness ==
  /\ Enriched
  /\ \E p \in Positions(inP) :
       LET id == InTicket(p).ticket_id IN
       /\ id \in DuplicateIds(inE)
       /\ \E k \in Matching(inE, id) : ERecords(inE)[k].status = "WIN"
       /\ ERecords(inE)[LastRecord(inE, id)].status = Undefined
       /\ SomeLeg(OutTicket(p), "LOSE")
       /\ OutTicket(p).status = "LOSE"

\* the entries of a legs list L for fixture f
Listed(L, f) == {j \in 1..Len(L) : L[j].fixture_id = f}
\* the status a legs list L gives fixture f: the last entry's, else PENDING
ListedStatus(L, f) ==
  IF Listed(L, f) = {} THEN "PENDING"
  ELSE L[CHOOSE j \in Listed(L, f) : \A k \in Listed(L, f) : k <= j].status
\* every record of E is an object whose legs are missing or an array
RecordsWellFormed(E) ==
  /\ E.tag = "object" /\ E.tickets.tag = "array"
  /\ \A k \in 1..Len(E.tickets.items) :
       /\ E.tickets.items[k].tag = "object"
       /\ E.tickets.items[k].legs.tag \in {"undefined", "array"}

\* C12: with a matching evaluation record, each leg gets the status the
\* record lists for its fixture_id, the later entry when the fixture is
\* listed more than once; a leg that is not listed, or whose record has no
\* legs list, is PENDING, and none of this fails the enrichment.
C12_LegStatusFromRecord ==
  /\ (ran /\ RecordsWellFormed(inE)) => ~out.threw
  /\ Enriched =>
       \A p \in Positions(inP) :
         LET id == InTicket(p).ticket_id IN
         Matching(inE, id) # {} =>
           LET rec == ERecords(inE)[LastRecord(inE, id)] IN
           \A k \in 1..Len(InTicket(p).legs) :
             OutTicket(p).legs[k].status =
               (IF rec.legs.tag = "array"
                  THEN ListedStatus(rec.legs.items, InTicket(p).legs[k].fixture_id)
                  ELSE "PENDING")

\* the record of T1 lists fixture 100 twice, WIN then LOSE, and not 101
C12_Witness ==
  /\ Enriched
  /\ \E p \in Positions(inP) :
       /\ InTicket(p) = T1 /\ Matching(inE, "T1") # {}
       /\ LET rec == ERecords(inE)[LastRecord(inE, "T1")] IN
            /\ rec.legs.tag = "array"
            /\ rec.legs.items = <<EvalLeg(100, "WIN"), EvalLeg(100, "LOSE")>>
       /\ OutTicket(p).legs[1].status = "LOSE"
       /\ OutTicket(p).legs[2].status = "PENDING"

\* C13: an enriched ticket is PARTIAL only if its evaluation record carries
\* the explicit status PARTIAL; a status derived from the legs is never
\* PARTIAL, also for a mix of WIN and LOSE legs.
C13_PartialOnlyExplicit ==
  Enriched =>
    \A p \in Positions(inP) :
      LET id == InTicket(p).ticket_id IN
      /\ OutTicket(p).status = "PARTIAL" =>
           /\ Matching(inE, id) # {}
           /\ ERecords(inE)[LastRecord(inE, id)].status = "PARTIAL"
      /\ (Matching(inE, id) # {}
            /\ ERecords(inE)[LastRecord(inE, id)].status = Undefined) =>
           OutTicket(p).status \in {"WIN", "LOSE", "PENDING"}

\* no explicit status, one leg WIN and one leg LOSE: the ticket is LOSE
C13_Witness ==
  /\ Enriched
  /\ \E p \in Positions(inP) :
       /\ Matching(inE, InTicket(p).ticket_id) # {}
       /\ ERecords(inE)[LastRecord(inE, InTicket(p).ticket_id)].status = Undefined
       /\ SomeLeg(OutTicket(p), "WIN") /\ SomeLeg(OutTicket(p), "LOSE")
       /\ OutTicket(p).status = "LOSE"

\* C14: a ticket without legs whose status its evaluation record does not
\* give is never enriched to WIN, with or without an evaluation record for
\* its ticket identifier.
C14_NoLegsNeverWin ==
  Enriched =>
    \A p \in Positions(inP) :
      LET id == InTicket(p).ticket_id IN
      (Len(InTicket(p).legs) = 0
         /\ (Matching(inE, id) # {} =>
               ERecords(inE)[LastRecord(inE, id)].status = Undefined)) =>
        OutTicket(p).status # "WIN"

\* C14, as far as the code goes: without a record the ticket is PENDING,
\* with a record that gives no status it is WIN
C14_NoLegsWinIffRecord ==
  Enriched =>
    \A p \in Positions(inP) :
      LET id == InTicket(p).ticket_id IN
      (Len(InTicket(p).legs) = 0
         /\ (Matching(inE, id) # {} =>
               ERecords(inE)[LastRecord(inE, id)].status = Undefined)) =>
        OutTicket(p).status = (IF Matching(inE, id) = {} THEN "PENDING" ELSE "WIN")

\* C9: every enriched leg carries a status of {PENDING, WIN, LOSE} and
\* every enriched ticket a status of {PENDING, WIN, LOSE, PARTIAL}.
C9_StatusDomains ==
  Enriched =>
    \A p \in Positions(inP) :
      /\ OutTicket(p).status \in TicketStatus
      /\ \A k \in 1..Len(OutTicket(p).legs) : OutTicket(p).legs[k].status \in LegStatus

====
